---- MODULE Spec2Model ----
(***************************************************************************)
(* Model of the persistent guestfish session manager of                    *)
(* virttest/utils_libguestfs.py: GuestfishSession, GuestfishRemote and     *)
(* GuestfishPersistent.  Every method is one action; what the guestfish    *)
(* process, aexpect and avocado's process.run answer is drawn with \E.     *)
(***************************************************************************)
EXTENDS Integers, Sequences, FiniteSets, TLC

\* ------------------------------------------------------------- bounds
\* Number of guestfish processes that may be started in one behaviour.
MaxSessions == 3
\* Longest captured output of the text specification.
MaxLen == 3
\* Calls each manager makes in the thread specification.
MaxCalls == 2

\* ------------------------------------------------------------- values
\* The manager objects alive at one time; a dropped one makes room for the next.
Managers == {"m1"}
RunModes == {"interactive", "remote"}
\* session_id is a key of the property dict; NoId stands for "key absent".
NoId == 0
Ids == 1..MaxSessions
\* Characters of a captured output: "L" "E" is the literal
\* "libguestfs: error:", "x" any other text, " " and "\n" whitespace.
Chars == {"L", "E", "x", "\n"}
Whitespace == {"\n", " "}
Texts == UNION {[1..k -> Chars] : k \in 0..MaxLen}
\* Outputs the guestfish process answers with in the session specification.
SampleOutputs == { <<"x", "\n">>, <<"L", "E">>, <<"x", "\n", "L", "E">> }
\* A command text is a sequence of words.
InnerCommands == {<<"ls">>}

VARIABLES
    SESSION_COUNTER,  \* GuestfishPersistent.SESSION_COUNTER (class attribute)
    session_id,       \* per manager: the stored session id, NoId when absent
    run_mode,         \* per manager: "interactive" or "remote"
    ignore_status,    \* per manager: the ignore_status property
    mstate,           \* per manager: "new", "ready", "failed" (constructor raised)
    proc,             \* per session id: "none", "alive", "dead"
    owner,            \* per session id: the manager that started it, "gone"
                      \* once that manager object was dropped
    last,             \* what the most recent call did
    txt               \* the state of the text, the tool-check and the thread
                      \* specification

vars == <<SESSION_COUNTER, session_id, run_mode, ignore_status, mstate,
          proc, owner, last, txt>>

\* ----------------------------------------------------------- tool check
\* The tools lgf_cmd_check knows.
libguestfs_cmds ==
    {"libguestfs-test-tool", "guestfish", "guestmount", "virt-alignment-scan",
     "virt-cat", "virt-copy-in", "virt-copy-out", "virt-df", "virt-edit",
     "virt-filesystems", "virt-format", "virt-inspector", "virt-list-filesystems",
     "virt-list-partitions", "virt-ls", "virt-make-fs", "virt-rescue", "virt-resize",
     "virt-sparsify", "virt-sysprep", "virt-tar", "virt-tar-in", "virt-tar-out",
     "virt-win-reg", "virt-inspector2"}
\* Names lgf_cmd_check is also called with in the tool-check specification.
OtherCommands == {"virt-v2v", "virt-diff", "ls", ""}
\* Python's None as a return value; a path is the directory and the name.
None == <<>>
\* path.find_command(cmd) when the tool is installed.
find_command(cmd) == <<"/usr/bin", cmd>>

\* Variant: the tool is looked up before the name is checked.
lgf_cmd_check_looks_up_first(cmd, installed) ==
    IF ~installed
    THEN [raised |-> "none", ret |-> None, looked |-> TRUE, warned |-> TRUE]
    ELSE IF cmd \notin libguestfs_cmds
    THEN [raised |-> "LibguestfsCmdError", ret |-> None, looked |-> TRUE, warned |-> FALSE]
    ELSE [raised |-> "none", ret |-> find_command(cmd), looked |-> TRUE, warned |-> FALSE]

\* lgf_cmd_check(cmd); installed: path.find_command finds the tool (otherwise
\* it raises CmdNotFoundError).  looked: path.find_command was called;
\* warned: the "not installed" warning was logged.
lgf_cmd_check(cmd, installed) ==
    IF cmd \notin libguestfs_cmds
    THEN [raised |-> "LibguestfsCmdError", ret |-> None, looked |-> FALSE, warned |-> FALSE]
    ELSE IF installed
    THEN [raised |-> "none", ret |-> find_command(cmd), looked |-> TRUE, warned |-> FALSE]
    ELSE [raised |-> "none", ret |-> None, looked |-> TRUE, warned |-> TRUE]

\* ------------------------------------------------------ text functions
\* re.search(pattern, text) for a literal pattern followed by \s*:
\* the literal occurs somewhere in text (\s* also matches nothing).
re_search(pattern, text) ==
    \E i \in 1..(Len(text) - Len(pattern) + 1) :
        SubSeq(text, i, i + Len(pattern) - 1) = pattern

ERROR_REGEX_LIST == << <<"L", "E">> >>

\* str.splitlines(): the lines of a text, line ends removed, no empty last line.
RECURSIVE splitlines(_)
splitlines(s) ==
    IF s = <<>> THEN <<>>
    ELSE LET nl == {i \in 1..Len(s) : s[i] = "\n"} IN
         IF nl = {} THEN <<s>>
         ELSE LET i == CHOOSE j \in nl : \A k \in nl : j <= k IN
              <<SubSeq(s, 1, i - 1)>> \o splitlines(SubSeq(s, i + 1, Len(s)))

\* str.strip(): leading and trailing whitespace removed.
RECURSIVE strip(_)
strip(s) ==
    IF s = <<>> THEN s
    ELSE IF s[1] \in Whitespace THEN strip(Tail(s))
    ELSE IF s[Len(s)] \in Whitespace THEN strip(SubSeq(s, 1, Len(s) - 1))
    ELSE s

\* aexpect's match_patterns(cont, patterns): the index of the first pattern
\* found in cont, 0 for None.
match_patterns(cont, patterns) ==
    LET hit == {i \in 1..Len(patterns) : re_search(patterns[i], cont)} IN
    IF hit = {} THEN 0 ELSE CHOOSE i \in hit : \A k \in hit : i <= k

\* Variant: only the first line of the output is looked at.
SessionStatusFirstLineOnly(out) ==
    LET lines == splitlines(out) IN
    IF Len(lines) > 0 /\ match_patterns(lines[1], ERROR_REGEX_LIST) # 0
    THEN <<1, out>> ELSE <<0, out>>

\* GuestfishSession.cmd_status_output, after cmd_output returned out.
Session_cmd_status_output(out) ==
    LET lines == splitlines(out) IN
    IF \E n \in 1..Len(lines) : match_patterns(lines[n], ERROR_REGEX_LIST) # 0
    THEN <<1, out>> ELSE <<0, out>>

\* guestfs_exec + cmd of GuestfishRemote.cmd_status_output, with
\* guestfs_exec = "guestfish --remote=%s " % a_id.
Remote_command_line(a_id, cmd) == <<"guestfish", "--remote=" \o ToString(a_id)>> \o cmd

\* process.run(cmd, ignore_status=None, ...) of a "guestfish --remote=<id>"
\* helper: run is "ok" (exit status 0, the server took the command) or "fail"
\* (non-zero exit status or timeout, which raises process.CmdError).
\* GuestfishRemote.cmd_status_output: CmdError becomes LibguestfsCmdError, an
\* error pattern in the stripped output raises LibguestfsCmdError as well.
\* line is the command line handed to process.run.
Remote_cmd_status_output(a_id, cmd, run, stdout) ==
    LET line == Remote_command_line(a_id, cmd) IN
    IF run = "fail"
    THEN [raised |-> "LibguestfsCmdError", status |-> 0, out |-> <<>>, line |-> line]
    ELSE IF \E n \in 1..Len(ERROR_REGEX_LIST) :
                re_search(ERROR_REGEX_LIST[n], strip(stdout))
    THEN [raised |-> "LibguestfsCmdError", status |-> 0, out |-> <<>>, line |-> line]
    ELSE [raised |-> "none", status |-> 0, out |-> strip(stdout), line |-> line]

\* ------------------------------------------------- results and handles
NoResult == [command |-> <<>>, stdout |-> <<>>, stderr |-> <<>>, exit_status |-> -1]
\* process.CmdResult(cmd, stdout, stderr, exit_status)
CmdResult(cmd, stdout, stderr, exit_status) ==
    [command |-> cmd, stdout |-> stdout, stderr |-> stderr, exit_status |-> exit_status]

\* What the guestfish process of a session answers to one line sent with
\* ShellSession.cmd_output: the prompt comes back ("prompt"), it does not
\* within the timeout ("timeout"), or the process is or gets terminated.
SendOutcomes(ps) ==
    IF ps = "alive" THEN {"prompt", "timeout", "terminated"} ELSE {"terminated"}
\* What process.run of a remote helper answers: a dead server never answers.
RunOutcomes(ps) == IF ps = "alive" THEN {"ok", "fail"} ELSE {"fail"}
\* GuestfishSession(a_id=...): attaching to a session that was already closed
\* may raise aexpect.ShellStatusError; GuestfishRemote(a_id=...) only stores
\* the id.
AttachOutcomes(mode, ps) ==
    IF mode = "interactive" /\ ps = "dead" THEN {"ok", "ShellStatusError"} ELSE {"ok"}

\* One choice of everything the environment answers during a call: attach
\* (open_session), send (an interactive command), run (a remote helper), out
\* (the output), aliveAfter (is_alive() after a quit that came back), sig1
\* and sig2 (whether close() and close(sig=SIGTERM) end the process).
Env(attach, send, run, out, aliveAfter, sig1, sig2) ==
    [attach |-> attach, send |-> send, run |-> run, out |-> out,
     aliveAfter |-> aliveAfter, sig1 |-> sig1, sig2 |-> sig2]
\* The answers to one inner command.
CmdEnvs(mode, ps) ==
    IF mode = "remote"
    THEN {Env("ok", "timeout", "fail", <<>>, TRUE, TRUE, TRUE)} \cup
         {Env("ok", "timeout", run, out, TRUE, TRUE, TRUE) :
              run \in RunOutcomes(ps) \ {"fail"}, out \in SampleOutputs}
    ELSE {Env(attach, "timeout", "fail", <<>>, TRUE, TRUE, TRUE) :
              attach \in AttachOutcomes(mode, ps) \ {"ok"}} \cup
         {Env("ok", send, "fail", <<>>, TRUE, TRUE, TRUE) :
              send \in SendOutcomes(ps) \ {"prompt"}} \cup
         {Env("ok", send, "fail", out, TRUE, TRUE, TRUE) :
              send \in SendOutcomes(ps) \cap {"prompt"}, out \in SampleOutputs}
\* The answers to close_session: after a quit that came back the process may
\* be gone, or end at the first signal, at the second, or at neither.
CloseEnvs(mode, ps) ==
    CmdEnvs(mode, ps) \cup
    IF mode = "remote" THEN {}
    ELSE {Env("ok", send, "fail", out, a[1], a[2], a[3]) :
              send \in SendOutcomes(ps) \cap {"prompt"}, out \in SampleOutputs,
              a \in {<<FALSE, TRUE, TRUE>>, <<TRUE, FALSE, TRUE>>, <<TRUE, FALSE, FALSE>>}}
NoEnv ==
    [attach |-> "ok", send |-> "timeout", run |-> "fail", out |-> <<>>,
     aliveAfter |-> TRUE, sig1 |-> TRUE, sig2 |-> TRUE]

\* Variant: a prompt that does not come back is taken for a dead process.
Session_cmd_output_timeout_is_termination(send, out) ==
    IF send = "prompt" THEN [raised |-> "none", out |-> out]
    ELSE [raised |-> "ShellProcessTerminatedError", out |-> <<>>]

\* Variant: a dead process is waited for until the timeout.
Session_cmd_output_termination_is_timeout(send, out) ==
    IF send = "prompt" THEN [raised |-> "none", out |-> out]
    ELSE [raised |-> "ShellTimeoutError", out |-> <<>>]

\* ShellSession.cmd_output(cmd): the output up to the prompt, or the error.
Session_cmd_output(send, out) ==
    CASE send = "prompt" -> [raised |-> "none", out |-> out]
      [] send = "timeout" -> [raised |-> "ShellTimeoutError", out |-> <<>>]
      [] OTHER -> [raised |-> "ShellProcessTerminatedError", out |-> <<>>]

\* ShellSession.cmd(cmd): cmd_status_output, ShellCmdError unless status is 0.
Session_cmd(send, out) ==
    LET o == Session_cmd_output(send, out) IN
    IF o.raised # "none" THEN o.raised
    ELSE IF Session_cmd_status_output(o.out)[1] # 0 THEN "ShellCmdError"
    ELSE "none"

\* Variant: the status is never turned into an error.
Session_cmd_result_never_raises(cmd, ign, send, out) ==
    LET o == Session_cmd_output(send, out) IN
    IF o.raised # "none" THEN [raised |-> o.raised, result |-> NoResult]
    ELSE LET so == Session_cmd_status_output(o.out) IN
         [raised |-> "none", result |-> CmdResult(cmd, so[2], <<>>, so[1])]

\* GuestfishSession.cmd_result(cmd, ignore_status)
Session_cmd_result(cmd, ign, send, out) ==
    LET o == Session_cmd_output(send, out) IN
    IF o.raised # "none" THEN [raised |-> o.raised, result |-> NoResult]
    ELSE LET so == Session_cmd_status_output(o.out)
             result == CmdResult(cmd, so[2], <<>>, so[1]) IN
         IF ~ign /\ so[1] # 0
         THEN [raised |-> "CmdError", result |-> NoResult]
         ELSE [raised |-> "none", result |-> result]

\* Variant: the Command Result names the command line that was run.
Remote_cmd_result_reports_line(a_id, cmd, ign, run, out) ==
    LET so == Remote_cmd_status_output(a_id, cmd, run, out) IN
    IF so.raised # "none"
    THEN [raised |-> so.raised, result |-> NoResult, line |-> so.line]
    ELSE [raised |-> "none", result |-> CmdResult(so.line, so.out, <<>>, so.status),
          line |-> so.line]

\* GuestfishRemote.cmd(cmd, ignore_status) and GuestfishRemote.cmd_result: the
\* two bodies are the same; cmd_status_output is called without ignore_status.
\* line is the command line that was run.
Remote_cmd_result(a_id, cmd, ign, run, out) ==
    LET so == Remote_cmd_status_output(a_id, cmd, run, out) IN
    IF so.raised # "none"
    THEN [raised |-> so.raised, result |-> NoResult, line |-> so.line]
    ELSE LET result == CmdResult(cmd, so.out, <<>>, so.status) IN
         IF ~ign /\ so.status # 0
         THEN [raised |-> "CmdError", result |-> NoResult, line |-> so.line]
         ELSE [raised |-> "none", result |-> result, line |-> so.line]

\* ------------------------------------------------- GuestfishPersistent
\* open_session(): the handle of the stored id (handle = the id it talks to).
open_session(sid, mode, attach) ==
    IF sid = NoId
    THEN [raised |-> "LibguestfsCmdError", sid |-> sid, handle |-> NoId]
    ELSE IF mode = "remote"
    THEN [raised |-> "none", sid |-> sid, handle |-> sid]
    ELSE IF attach = "ShellStatusError"
    THEN [raised |-> "LibguestfsCmdError", sid |-> NoId, handle |-> NoId]
    ELSE [raised |-> "none", sid |-> sid, handle |-> sid]

CloseRes(c, sid, p, raised, quit, signals) ==
    [counter |-> c, sid |-> sid, proc |-> p, raised |-> raised,
     quit |-> quit, signals |-> signals]

\* Variant: a bare "except:" that swallows every error.
outer_except_everything(exc) == "none"

\* close_session's outer "except LibguestfsCmdError: pass": what leaves
\* close_session when exc was raised inside the try ("none": nothing).
outer_except(exc) == IF exc = "LibguestfsCmdError" THEN "none" ELSE exc

\* Variant: the branch forgets to delete session_id.
quit_terminated_keeps_id(c, sid, p) ==
    CloseRes(c - 1, sid, p, "none", "ShellProcessTerminatedError", <<>>)

\* Variant: the branch forgets SESSION_COUNTER -= 1.
quit_terminated_keeps_count(c, sid, p) ==
    CloseRes(c, NoId, p, "none", "ShellProcessTerminatedError", <<>>)

\* close_session's "except aexpect.ShellProcessTerminatedError" branch.
quit_terminated(c, sid, p) ==
    CloseRes(c - 1, NoId, p, "none", "ShellProcessTerminatedError", <<>>)

\* close_session after a quit that came back, interactive mode: is_alive(),
\* close(), is_alive(), close(sig=signal.SIGTERM), then the bookkeeping.
\* aexpect's close() sends SIGKILL unless told otherwise.
close_with_aexpect(c, sid, p, e) ==
    IF e.aliveAfter
    THEN LET p1 == IF e.sig1 THEN [p EXCEPT ![sid] = "dead"] ELSE p
             p2 == IF ~e.sig1 /\ e.sig2 THEN [p EXCEPT ![sid] = "dead"] ELSE p1 IN
         CloseRes(c - 1, NoId, p2, "none", "returned",
                  IF e.sig1 THEN <<"SIGKILL">> ELSE <<"SIGKILL", "SIGTERM">>)
    ELSE CloseRes(c, sid, [p EXCEPT ![sid] = "dead"], "none", "returned", <<>>)

\* What the quit command does to the guestfish process it was sent to.
AfterQuit(sid, mode, p, e) ==
    IF (mode = "remote" /\ e.run = "ok") \/ (mode # "remote" /\ e.send = "terminated")
    THEN [p EXCEPT ![sid] = "dead"] ELSE p

\* Variant: the bookkeeping under "Keep count" also runs in remote mode.
close_session_counts_remote(c, sid, mode, p, e) ==
    LET o == open_session(sid, mode, e.attach) IN
    IF o.raised # "none"
    THEN CloseRes(c, o.sid, p, outer_except(o.raised), "notsent", <<>>)
    ELSE LET q == IF mode = "remote"
                  THEN Remote_cmd_result(sid, <<"quit">>, FALSE, e.run, e.out).raised
                  ELSE Session_cmd(e.send, e.out)
             pq == AfterQuit(sid, mode, p, e) IN
         IF q = "ShellProcessTerminatedError" THEN quit_terminated(c, sid, pq)
         ELSE IF q # "none" THEN CloseRes(c, sid, pq, outer_except(q), q, <<>>)
         ELSE IF mode # "remote" THEN close_with_aexpect(c, sid, pq, e)
         ELSE CloseRes(c - 1, NoId, pq, "none", "returned", <<>>)

\* close_session(): c is SESSION_COUNTER, sid the stored id, p the processes.
\* quit is how existing.cmd("quit") ended: "notsent", "returned" or the error.
close_session(c, sid, mode, p, e) ==
    LET o == open_session(sid, mode, e.attach) IN
    IF o.raised # "none"
    THEN CloseRes(c, o.sid, p, outer_except(o.raised), "notsent", <<>>)
    ELSE LET q == IF mode = "remote"
                  THEN Remote_cmd_result(sid, <<"quit">>, FALSE, e.run, e.out).raised
                  ELSE Session_cmd(e.send, e.out)
             pq == AfterQuit(sid, mode, p, e) IN
         IF q = "ShellProcessTerminatedError" THEN quit_terminated(c, sid, pq)
         ELSE IF q # "none" THEN CloseRes(c, sid, pq, outer_except(q), q, <<>>)
         ELSE IF mode # "remote" THEN close_with_aexpect(c, sid, pq, e)
         ELSE CloseRes(c, sid, pq, "none", "returned", <<>>)

\* Variant: the session is counted before it is started.
start_session_counts_first(cl, mode, startOk, newId) ==
    IF ~startOk
    THEN [cl EXCEPT !.counter = cl.counter + 1,
                    !.raised = IF mode = "remote" THEN "LibguestfsCmdError"
                               ELSE "SpawnError"]
         @@ [started |-> NoId, closeRaised |-> "none"]
    ELSE [cl EXCEPT !.counter = cl.counter + 1, !.sid = newId,
                    !.proc = [cl.proc EXCEPT ![newId] = "alive"]]
         @@ [started |-> newId, closeRaised |-> "none"]

\* Variant: the fresh session is not counted.
start_session_keeps_count(cl, mode, startOk, newId) ==
    IF ~startOk
    THEN [cl EXCEPT !.raised =
              IF mode = "remote" THEN "LibguestfsCmdError" ELSE "SpawnError"]
         @@ [started |-> NoId, closeRaised |-> "none"]
    ELSE [cl EXCEPT !.sid = newId, !.proc = [cl.proc EXCEPT ![newId] = "alive"]]
         @@ [started |-> newId, closeRaised |-> "none"]

\* new_session() after close_session() returned cl: a fresh GuestfishRemote
\* or GuestfishSession with id newId (startOk: starting it did not raise),
\* the counter, the stored id.
start_session(cl, mode, startOk, newId) ==
    IF ~startOk
    THEN [cl EXCEPT !.raised =
              IF mode = "remote" THEN "LibguestfsCmdError" ELSE "SpawnError"]
         @@ [started |-> NoId, closeRaised |-> "none"]
    ELSE [cl EXCEPT !.counter = cl.counter + 1, !.sid = newId,
                    !.proc = [cl.proc EXCEPT ![newId] = "alive"]]
         @@ [started |-> newId, closeRaised |-> "none"]

\* new_session(): close_session(), then the fresh session.
new_session(c, sid, mode, p, e, startOk, newId) ==
    LET cl == close_session(c, sid, mode, p, e) IN
    IF cl.raised # "none"
    THEN cl @@ [started |-> NoId, closeRaised |-> cl.raised]
    ELSE start_session(cl, mode, startOk, newId)

\* ------------------------------------------------------------- state
NoCall ==
    [op |-> "none", m |-> "m1", raised |-> "none", counter0 |-> 0, sid0 |-> NoId,
     again |-> FALSE, counter00 |-> 0, open0 |-> FALSE, open00 |-> FALSE,
     closeRaised |-> "none",
     mode |-> "interactive", quit |-> "notsent", signals |-> <<>>, started |-> NoId,
     sentTo |-> NoId, cmd |-> <<>>, line |-> <<>>, answer |-> "none", ign |-> TRUE,
     recorded |-> FALSE, out |-> <<>>, status |-> 0,
     result |-> NoResult]
NoTxt == [out |-> <<>>, applied |-> "none", status |-> 0, ret |-> <<>>, raised |-> "none"]

ProcOf(sid) == IF sid = NoId THEN "none" ELSE proc[sid]

\* The call record of manager m starting op now.  counter0, sid0 and open0
\* are SESSION_COUNTER, the stored id and whether its process is alive before
\* the call.  again: the event before this call was the same method of the
\* same manager and it returned; counter00 and open00 are then counter0 and
\* open0 of that first call.  recorded: the stored id was recorded by the
\* latest new_session() and close_session() was not called since.
Call(op, m) ==
    LET again == last.op = op /\ last.m = m /\ last.raised = "none"
        open0 == ProcOf(session_id[m]) = "alive" IN
    [NoCall EXCEPT !.op = op, !.m = m, !.counter0 = SESSION_COUNTER,
                   !.sid0 = session_id[m], !.mode = run_mode[m],
                   !.ign = ignore_status[m], !.again = again, !.open0 = open0,
                   !.recorded = last.recorded,
                   !.counter00 = IF again THEN last.counter0 ELSE SESSION_COUNTER,
                   !.open00 = IF again THEN last.open0 ELSE open0]

Fresh == {i \in Ids : proc[i] = "none"}
\* The id a session started now gets (ids are never reused).
NewId == CHOOSE i \in Fresh : \A k \in Fresh : i <= k

Init ==
    /\ SESSION_COUNTER = 0
    /\ session_id = [m \in Managers |-> NoId]
    /\ run_mode = [m \in Managers |-> "interactive"]
    /\ ignore_status = [m \in Managers |-> TRUE]
    /\ mstate = [m \in Managers |-> "new"]
    /\ proc = [i \in Ids |-> "none"]
    /\ owner = [i \in Ids |-> "m1"]
    /\ last = NoCall
    /\ txt = NoTxt

\* Variant: the status of the probe is not looked at.
probe_ignores_status(mode, send, out) ==
    IF mode = "remote"
    THEN [sent |-> FALSE, raised |-> "none", status |-> 0, out |-> <<>>, answer |-> "none"]
    ELSE LET po == Session_cmd_output(send, out) IN
         IF po.raised # "none"
         THEN [sent |-> TRUE, raised |-> po.raised, status |-> 0, out |-> <<>>,
               answer |-> send]
         ELSE LET so == Session_cmd_status_output(po.out) IN
              [sent |-> TRUE, raised |-> "none", status |-> so[1], out |-> so[2],
               answer |-> send]

\* The end of GuestfishPersistent.__init__: unless run_mode is "remote",
\* guestfs_session.cmd_status_output("is-config", timeout=60) and
\* "if status != 0: raise aexpect.ShellStatusError".
probe(mode, send, out) ==
    IF mode = "remote"
    THEN [sent |-> FALSE, raised |-> "none", status |-> 0, out |-> <<>>, answer |-> "none"]
    ELSE LET po == Session_cmd_output(send, out) IN
         IF po.raised # "none"
         THEN [sent |-> TRUE, raised |-> po.raised, status |-> 0, out |-> <<>>,
               answer |-> send]
         ELSE LET so == Session_cmd_status_output(po.out) IN
              [sent |-> TRUE, raised |-> IF so[1] # 0 THEN "ShellStatusError" ELSE "none",
               status |-> so[1], out |-> so[2], answer |-> send]

\* Variant: a failed probe closes the session the constructor started.
after_probe_rolls_back(c, sid, p, probed, pr) ==
    IF probed /\ pr.raised # "none"
    THEN [counter |-> c - 1, sid |-> NoId, proc |-> [p EXCEPT ![sid] = "dead"]]
    ELSE [counter |-> c, sid |-> sid, proc |-> p]

\* What __init__ leaves behind once the probe (if any) has answered: the
\* counter c, the stored id sid and the processes p as new_session() and
\* open_session() left them; the raise after a failed probe undoes nothing.
\* A process that terminated during the probe is dead.
after_probe(c, sid, p, probed, pr) ==
    [counter |-> c, sid |-> sid,
     proc |-> IF probed /\ pr.answer = "terminated"
              THEN [p EXCEPT ![sid] = "dead"] ELSE p]

\* ----------------------------------------------------------- actions
\* GuestfishPersistent(run_mode=mode): Guestfish.__init__ (lgf_cmd_check,
\* run_mode check, ignore_status default), new_session(), open_session() and,
\* unless remote, the "is-config" probe.
Construct(m) ==
    /\ mstate[m] = "new"
    /\ Fresh # {}
    /\ \E mode \in RunModes \cup {"other"}, installed \in BOOLEAN, startOk \in BOOLEAN,
          send \in SendOutcomes("alive"), out \in SampleOutputs :
        LET c0 == Call("construct", m)
            early == IF lgf_cmd_check("guestfish", installed).ret = None
                     THEN "LibguestfsCmdError"
                     ELSE IF mode \notin RunModes THEN "AssertionError" ELSE "none"
            ns == new_session(SESSION_COUNTER, NoId, mode, proc, NoEnv, startOk, NewId)
            os == open_session(ns.sid, mode, "ok")
            pr == probe(mode, send, out)
            raised == IF early # "none" THEN early
                      ELSE IF ns.raised # "none" THEN ns.raised
                      ELSE IF os.raised # "none" THEN os.raised
                      ELSE pr.raised
            probed == early = "none" /\ ns.raised = "none" /\ os.raised = "none"
                      /\ mode # "remote"
        IN
        /\ (early # "none" => (installed => mode = "other") /\ startOk)
        /\ (~probed => (send = "timeout" /\ out = <<"L", "E">>))
        /\ (send # "prompt" => out = <<"L", "E">>)
        /\ run_mode' = [run_mode EXCEPT ![m] = IF mode \in RunModes THEN mode ELSE @]
        /\ ignore_status' = [ignore_status EXCEPT ![m] = TRUE]
        /\ mstate' = [mstate EXCEPT ![m] = IF raised = "none" THEN "ready" ELSE "failed"]
        /\ IF early # "none"
           THEN /\ UNCHANGED <<SESSION_COUNTER, session_id, proc, owner>>
                /\ last' = [c0 EXCEPT !.raised = raised, !.mode = mode,
                                      !.recorded = FALSE]
           ELSE \E ap \in {after_probe(ns.counter, os.sid, ns.proc, probed, pr)} :
                /\ SESSION_COUNTER' = ap.counter
                /\ session_id' = [session_id EXCEPT ![m] = ap.sid]
                /\ proc' = ap.proc
                /\ owner' = IF ns.started # NoId
                            THEN [owner EXCEPT ![ns.started] = m] ELSE owner
                /\ last' = [c0 EXCEPT !.raised = raised, !.mode = mode,
                                      !.quit = ns.quit, !.signals = ns.signals,
                                      !.closeRaised = ns.closeRaised,
                                      !.started = ns.started,
                                      !.recorded = ns.started # NoId,
                                      !.sentTo = IF probed THEN os.handle ELSE NoId,
                                      !.cmd = IF probed THEN <<"is-config">> ELSE <<>>,
                                      !.line = IF probed THEN <<"is-config">> ELSE <<>>,
                                      !.answer = IF probed THEN pr.answer ELSE "none",
                                      !.out = IF probed THEN pr.out ELSE <<>>,
                                      !.status = IF probed THEN pr.status ELSE 0]
        /\ UNCHANGED txt

\* m.close_session()
CloseSession(m) ==
    /\ mstate[m] = "ready"
    /\ \E e \in CloseEnvs(run_mode[m], ProcOf(session_id[m])) :
        LET r == close_session(SESSION_COUNTER, session_id[m], run_mode[m], proc, e) IN
        /\ SESSION_COUNTER' = r.counter
        /\ session_id' = [session_id EXCEPT ![m] = r.sid]
        /\ proc' = r.proc
        /\ last' = [Call("close_session", m) EXCEPT
                        !.raised = r.raised, !.quit = r.quit, !.signals = r.signals,
                        !.closeRaised = r.raised, !.recorded = FALSE,
                        !.sentTo = IF r.quit = "notsent" THEN NoId ELSE session_id[m],
                        !.cmd = IF r.quit = "notsent" THEN <<>> ELSE <<"quit">>]
        /\ UNCHANGED <<run_mode, ignore_status, mstate, owner, txt>>

\* m.new_session()
NewSession(m) ==
    /\ mstate[m] = "ready"
    /\ Fresh # {}
    /\ \E e \in CloseEnvs(run_mode[m], ProcOf(session_id[m])), startOk \in BOOLEAN :
        LET r == new_session(SESSION_COUNTER, session_id[m], run_mode[m], proc, e,
                             startOk, NewId) IN
        /\ SESSION_COUNTER' = r.counter
        /\ session_id' = [session_id EXCEPT ![m] = r.sid]
        /\ proc' = r.proc
        /\ owner' = IF r.started # NoId THEN [owner EXCEPT ![r.started] = m] ELSE owner
        /\ last' = [Call("new_session", m) EXCEPT
                        !.raised = r.raised, !.quit = r.quit, !.signals = r.signals,
                        !.closeRaised = r.closeRaised, !.started = r.started,
                        !.recorded = r.started # NoId,
                        !.sentTo = IF r.quit = "notsent" THEN NoId ELSE session_id[m],
                        !.cmd = IF r.quit = "notsent" THEN <<>> ELSE <<"quit">>]
        /\ UNCHANGED <<run_mode, ignore_status, mstate, txt>>

\* m.open_session() called by the user of the manager.
OpenSession(m) ==
    /\ mstate[m] = "ready"
    /\ \E attach \in AttachOutcomes(run_mode[m], ProcOf(session_id[m])) :
        LET o == open_session(session_id[m], run_mode[m], attach) IN
        /\ session_id' = [session_id EXCEPT ![m] = o.sid]
        /\ last' = [Call("open_session", m) EXCEPT !.raised = o.raised]
        /\ UNCHANGED <<SESSION_COUNTER, run_mode, ignore_status, mstate, proc, owner, txt>>

\* Variant: a command that times out makes the manager forget its session.
inner_cmd_forgets_id_on_timeout(sid, mode, ign, command, e) ==
    LET o == open_session(sid, mode, e.attach) IN
    IF o.raised # "none"
    THEN [raised |-> o.raised, sid |-> o.sid, result |-> NoResult, sentTo |-> NoId,
          line |-> <<>>, answer |-> "none"]
    ELSE IF mode = "remote"
    THEN LET r == Remote_cmd_result(o.handle, command, ign, e.run, e.out) IN
         [raised |-> r.raised, sid |-> o.sid, result |-> r.result, sentTo |-> o.handle,
          line |-> r.line, answer |-> e.run]
    ELSE LET r == Session_cmd_result(command, ign, e.send, e.out) IN
         [raised |-> r.raised, sid |-> IF e.send = "timeout" THEN NoId ELSE o.sid,
          result |-> r.result, sentTo |-> o.handle,
          line |-> command, answer |-> e.send]

\* Variant: a failed open_session() is swallowed and nothing is returned.
inner_cmd_swallows_open_failure(sid, mode, ign, command, e) ==
    LET o == open_session(sid, mode, e.attach) IN
    IF o.raised # "none"
    THEN [raised |-> "none", sid |-> o.sid, result |-> NoResult, sentTo |-> NoId,
          line |-> <<>>, answer |-> "none"]
    ELSE IF mode = "remote"
    THEN LET r == Remote_cmd_result(o.handle, command, ign, e.run, e.out) IN
         [raised |-> r.raised, sid |-> o.sid, result |-> r.result, sentTo |-> o.handle,
          line |-> r.line, answer |-> e.run]
    ELSE LET r == Session_cmd_result(command, ign, e.send, e.out) IN
         [raised |-> r.raised, sid |-> o.sid, result |-> r.result, sentTo |-> o.handle,
          line |-> command, answer |-> e.send]

\* inner_cmd(command): open_session(), then session.cmd_result(command,
\* ignore_status=ignore_status) on the handle.  sentTo is the session the
\* command was dispatched to, line what was written to it or run, answer what
\* the environment answered.
inner_cmd(sid, mode, ign, command, e) ==
    LET o == open_session(sid, mode, e.attach) IN
    IF o.raised # "none"
    THEN [raised |-> o.raised, sid |-> o.sid, result |-> NoResult, sentTo |-> NoId,
          line |-> <<>>, answer |-> "none"]
    ELSE IF mode = "remote"
    THEN LET r == Remote_cmd_result(o.handle, command, ign, e.run, e.out) IN
         [raised |-> r.raised, sid |-> o.sid, result |-> r.result, sentTo |-> o.handle,
          line |-> r.line, answer |-> e.run]
    ELSE LET r == Session_cmd_result(command, ign, e.send, e.out) IN
         [raised |-> r.raised, sid |-> o.sid, result |-> r.result, sentTo |-> o.handle,
          line |-> command, answer |-> e.send]

\* m.inner_cmd(command)
InnerCmd(m) ==
    /\ mstate[m] = "ready"
    /\ \E command \in InnerCommands, e \in CmdEnvs(run_mode[m], ProcOf(session_id[m])) :
        LET r == inner_cmd(session_id[m], run_mode[m], ignore_status[m], command, e)
            got == r.sentTo # NoId /\
                   IF run_mode[m] = "remote" THEN e.run = "ok" ELSE e.send = "prompt"
        IN
        /\ session_id' = [session_id EXCEPT ![m] = r.sid]
        /\ proc' = IF r.sentTo # NoId /\ run_mode[m] # "remote" /\ e.send = "terminated"
                   THEN [proc EXCEPT ![r.sentTo] = "dead"] ELSE proc
        /\ last' = [Call("inner_cmd", m) EXCEPT
                        !.raised = r.raised, !.sentTo = r.sentTo, !.cmd = command,
                        !.line = r.line, !.answer = r.answer,
                        !.out = IF got THEN e.out ELSE <<>>,
                        !.status = IF got /\ run_mode[m] # "remote"
                                   THEN Session_cmd_status_output(e.out)[1] ELSE 0,
                        !.result = r.result]
        /\ UNCHANGED <<SESSION_COUNTER, run_mode, ignore_status, mstate, owner, txt>>

\* m.ignore_status = b (LibguestfsBase.set_ignore_status)
SetIgnoreStatus(m) ==
    /\ mstate[m] = "ready"
    /\ \E b \in BOOLEAN :
        /\ b # ignore_status[m]
        /\ ignore_status' = [ignore_status EXCEPT ![m] = b]
    /\ last' = [Call("set_ignore_status", m) EXCEPT !.ign = ~ignore_status[m]]
    /\ UNCHANGED <<SESSION_COUNTER, session_id, run_mode, mstate, proc, owner, txt>>

\* The manager object is dropped (GuestfishPersistent has no __del__ and no
\* context manager: nothing is closed); the next one is constructed afresh.
Discard(m) ==
    /\ mstate[m] \in {"ready", "failed"}
    /\ mstate' = [mstate EXCEPT ![m] = "new"]
    /\ session_id' = [session_id EXCEPT ![m] = NoId]
    /\ ignore_status' = [ignore_status EXCEPT ![m] = TRUE]
    /\ run_mode' = [run_mode EXCEPT ![m] = "interactive"]
    /\ owner' = [i \in Ids |-> IF owner[i] = m /\ proc[i] # "none" THEN "gone" ELSE owner[i]]
    /\ last' = [Call("discard", m) EXCEPT !.again = FALSE, !.recorded = FALSE,
                                          !.counter00 = SESSION_COUNTER]
    /\ UNCHANGED <<SESSION_COUNTER, proc, txt>>

\* The guestfish process of a session is killed from outside.
ExternalKill(i) ==
    /\ proc[i] = "alive"
    /\ proc' = [proc EXCEPT ![i] = "dead"]
    /\ last' = [NoCall EXCEPT !.op = "kill", !.sid0 = i, !.counter0 = SESSION_COUNTER,
                              !.recorded = last.recorded,
                              !.counter00 = SESSION_COUNTER]
    /\ UNCHANGED <<SESSION_COUNTER, session_id, run_mode, ignore_status, mstate,
                   owner, txt>>

Next ==
    \/ \E m \in Managers : Construct(m)
    \/ \E m \in Managers : CloseSession(m)
    \/ \E m \in Managers : NewSession(m)
    \/ \E m \in Managers : OpenSession(m)
    \/ \E m \in Managers : InnerCmd(m)
    \/ \E m \in Managers : SetIgnoreStatus(m)
    \/ \E m \in Managers : Discard(m)
    \/ \E i \in Ids : ExternalKill(i)

Spec == Init /\ [][Next]_vars

\* The managers as they are when the caller never assigns ignore_status.
NextDefault ==
    \/ \E m \in Managers : Construct(m)
    \/ \E m \in Managers : NewSession(m)
    \/ \E m \in Managers : InnerCmd(m)
    \/ \E m \in Managers : Discard(m)

SpecDefault == Init /\ [][NextDefault]_vars

\* ------------------------------------------------ text specification
\* The captured output is drawn from Texts; one send classifies it.
InitText ==
    /\ SESSION_COUNTER = 0
    /\ session_id = [m \in Managers |-> NoId]
    /\ run_mode = [m \in Managers |-> "interactive"]
    /\ ignore_status = [m \in Managers |-> TRUE]
    /\ mstate = [m \in Managers |-> "new"]
    /\ proc = [i \in Ids |-> "none"]
    /\ owner = [i \in Ids |-> "m1"]
    /\ last = NoCall
    /\ \E out \in Texts : txt = [NoTxt EXCEPT !.out = out]

\* GuestfishSession.cmd_status_output on the captured output.
SessionSend ==
    /\ txt.applied = "none"
    /\ LET so == Session_cmd_status_output(txt.out) IN
       txt' = [txt EXCEPT !.applied = "session", !.status = so[1], !.ret = so[2]]
    /\ UNCHANGED <<SESSION_COUNTER, session_id, run_mode, ignore_status, mstate,
                   proc, owner, last>>

\* GuestfishRemote.cmd_status_output on the helper's stdout.
RemoteSend ==
    /\ txt.applied = "none"
    /\ LET so == Remote_cmd_status_output(1, <<"ls">>, "ok", txt.out) IN
       txt' = [txt EXCEPT !.applied = "remote", !.status = so.status, !.ret = so.out,
                          !.raised = so.raised]
    /\ UNCHANGED <<SESSION_COUNTER, session_id, run_mode, ignore_status, mstate,
                   proc, owner, last>>

NextText == SessionSend \/ RemoteSend

SpecText == InitText /\ [][NextText]_vars

\* ------------------------------------------------------- lgf_command
\* How the external command of a process.run call ends: its exit status, and
\* interrupted when it was killed at the timeout.
RunEnds ==
    {[exit_status |-> 0, interrupted |-> FALSE], [exit_status |-> 1, interrupted |-> FALSE],
     [exit_status |-> 2, interrupted |-> FALSE], [exit_status |-> -9, interrupted |-> TRUE]}

\* avocado's process.run(cmd, ignore_status=..., timeout=...): CmdError when
\* the command failed (non-zero exit status or interrupted) unless
\* ignore_status, the CmdResult otherwise.
process_run(cmd, ign, end) ==
    IF (end.exit_status # 0 \/ end.interrupted) /\ ~ign
    THEN [raised |-> "CmdError", result |-> NoResult]
    ELSE [raised |-> "none", result |-> CmdResult(cmd, <<"x">>, <<>>, end.exit_status)]

\* Variant: the CmdError of process.run is not wrapped.
lgf_command_lets_CmdError_through(cmd, ign, end) == process_run(cmd, ign, end)

\* lgf_command(cmd, ignore_status, debug, timeout)
lgf_command(cmd, ign, end) ==
    LET ret == process_run(cmd, ign, end) IN
    IF ret.raised = "CmdError"
    THEN [raised |-> "LibguestfsCmdError", result |-> NoResult]
    ELSE [raised |-> "none", result |-> ret.result]

\* ------------------------------------------- tool-check specification
\* lgf_cmd_check is called once with a name and a host that has the tool
\* installed or not, or lgf_command once with that name as the command line,
\* an ignore_status and the way the command ends.
NoCheck ==
    [cmd |-> "", installed |-> FALSE, applied |-> "none", raised |-> "none",
     ret |-> None, looked |-> FALSE, warned |-> FALSE,
     ign |-> TRUE, end |-> [exit_status |-> 0, interrupted |-> FALSE],
     result |-> NoResult]

InitCheck ==
    /\ SESSION_COUNTER = 0
    /\ session_id = [m \in Managers |-> NoId]
    /\ run_mode = [m \in Managers |-> "interactive"]
    /\ ignore_status = [m \in Managers |-> TRUE]
    /\ mstate = [m \in Managers |-> "new"]
    /\ proc = [i \in Ids |-> "none"]
    /\ owner = [i \in Ids |-> "m1"]
    /\ last = NoCall
    /\ \E cmd \in libguestfs_cmds \cup OtherCommands, installed \in BOOLEAN,
          ign \in BOOLEAN, end \in RunEnds :
           txt = [NoCheck EXCEPT !.cmd = cmd, !.installed = installed,
                                 !.ign = ign, !.end = end]

LgfCmdCheck ==
    /\ txt.applied = "none"
    /\ LET r == lgf_cmd_check(txt.cmd, txt.installed) IN
       txt' = [txt EXCEPT !.applied = "lgf_cmd_check", !.raised = r.raised,
                          !.ret = r.ret, !.looked = r.looked, !.warned = r.warned]
    /\ UNCHANGED <<SESSION_COUNTER, session_id, run_mode, ignore_status, mstate,
                   proc, owner, last>>

LgfCommand ==
    /\ txt.applied = "none"
    /\ LET r == lgf_command(<<txt.cmd>>, txt.ign, txt.end) IN
       txt' = [txt EXCEPT !.applied = "lgf_command", !.raised = r.raised,
                          !.result = r.result]
    /\ UNCHANGED <<SESSION_COUNTER, session_id, run_mode, ignore_status, mstate,
                   proc, owner, last>>

NextCheck == LgfCmdCheck \/ LgfCommand

SpecCheck == InitCheck /\ [][NextCheck]_vars

\* ------------------------------------------------ thread specification
\* Two managers, each used by a thread of its own, call new_session() and
\* close_session().  "SESSION_COUNTER += 1" and "SESSION_COUNTER -= 1" on the
\* class attribute are a load and a store; nothing in the class keeps another
\* thread from running between the two.  Every quit ends the way
\* close_session calls normal (ShellProcessTerminatedError) and every start
\* succeeds, so that each call counts.  txt holds, per manager: pc (where the
\* call stands), then (what follows the close), loaded (the value read from
\* the class attribute), fresh (the id of the session just started), calls;
\* created and closed count the sessions started and closed.
ThreadManagers == {"m1", "m2"}

NoThreads ==
    [pc |-> [m \in ThreadManagers |-> "idle"],
     then |-> [m \in ThreadManagers |-> "idle"],
     loaded |-> [m \in ThreadManagers |-> 0],
     fresh |-> [m \in ThreadManagers |-> NoId],
     calls |-> [m \in ThreadManagers |-> 0],
     created |-> 0, closed |-> 0]

InitThreads ==
    /\ SESSION_COUNTER = 0
    /\ session_id = [m \in ThreadManagers |-> NoId]
    /\ run_mode = [m \in ThreadManagers |-> "interactive"]
    /\ ignore_status = [m \in ThreadManagers |-> TRUE]
    /\ mstate = [m \in ThreadManagers |-> "ready"]
    /\ proc = [i \in Ids |-> "none"]
    /\ owner = [i \in Ids |-> "m1"]
    /\ last = NoCall
    /\ txt = NoThreads

\* m.new_session() is called: close_session() first, which finds no id
\* (LibguestfsCmdError, swallowed) or sends quit.
BeginNewSession(m) ==
    /\ txt.pc[m] = "idle" /\ txt.calls[m] < MaxCalls
    /\ Cardinality(Fresh) > Cardinality({k \in ThreadManagers : txt.pc[k] # "idle"})
    /\ txt' = [txt EXCEPT !.calls[m] = @ + 1, !.then[m] = "start",
                          !.pc[m] = IF open_session(session_id[m], run_mode[m], "ok").raised
                                       # "none" THEN "start" ELSE "quit"]
    /\ UNCHANGED <<SESSION_COUNTER, session_id, run_mode, ignore_status, mstate,
                   proc, owner, last>>

\* m.close_session() is called.
BeginCloseSession(m) ==
    /\ txt.pc[m] = "idle" /\ txt.calls[m] < MaxCalls
    /\ txt' = [txt EXCEPT !.calls[m] = @ + 1, !.then[m] = "idle",
                          !.pc[m] = IF open_session(session_id[m], run_mode[m], "ok").raised
                                       # "none" THEN "idle" ELSE "quit"]
    /\ UNCHANGED <<SESSION_COUNTER, session_id, run_mode, ignore_status, mstate,
                   proc, owner, last>>

\* existing.cmd("quit"): the process ends, ShellProcessTerminatedError.
Quit(m) ==
    /\ txt.pc[m] = "quit"
    /\ proc' = [proc EXCEPT ![session_id[m]] = "dead"]
    /\ txt' = [txt EXCEPT !.pc[m] = "dec_load"]
    /\ UNCHANGED <<SESSION_COUNTER, session_id, run_mode, ignore_status, mstate,
                   owner, last>>

\* The load of "SESSION_COUNTER -= 1" or "SESSION_COUNTER += 1".
LoadCounter(m) ==
    /\ txt.pc[m] \in {"dec_load", "inc_load"}
    /\ txt' = [txt EXCEPT !.loaded[m] = SESSION_COUNTER,
                          !.pc[m] = IF @ = "dec_load" THEN "dec_store" ELSE "inc_store"]
    /\ UNCHANGED <<SESSION_COUNTER, session_id, run_mode, ignore_status, mstate,
                   proc, owner, last>>

\* The store of "SESSION_COUNTER -= 1", then the id is deleted.
StoreDecrement(m) ==
    /\ txt.pc[m] = "dec_store"
    /\ LET r == quit_terminated(txt.loaded[m], session_id[m], proc) IN
       /\ SESSION_COUNTER' = r.counter
       /\ session_id' = [session_id EXCEPT ![m] = r.sid]
    /\ txt' = [txt EXCEPT !.pc[m] = txt.then[m], !.closed = @ + 1]
    /\ UNCHANGED <<run_mode, ignore_status, mstate, proc, owner, last>>

\* GuestfishSession(guestfs_exec): the fresh guestfish process.
StartSession(m) ==
    /\ txt.pc[m] = "start"
    /\ proc' = [proc EXCEPT ![NewId] = "alive"]
    /\ owner' = [owner EXCEPT ![NewId] = m]
    /\ txt' = [txt EXCEPT !.pc[m] = "inc_load", !.fresh[m] = NewId, !.created = @ + 1]
    /\ UNCHANGED <<SESSION_COUNTER, session_id, run_mode, ignore_status, mstate, last>>

\* The store of "SESSION_COUNTER += 1", then the id is recorded.
StoreIncrement(m) ==
    /\ txt.pc[m] = "inc_store"
    /\ LET cl == CloseRes(txt.loaded[m], session_id[m], proc, "none", "notsent", <<>>)
           r == start_session(cl, run_mode[m], TRUE, txt.fresh[m]) IN
       /\ SESSION_COUNTER' = r.counter
       /\ session_id' = [session_id EXCEPT ![m] = r.sid]
    /\ txt' = [txt EXCEPT !.pc[m] = "idle"]
    /\ UNCHANGED <<run_mode, ignore_status, mstate, proc, owner, last>>

NextThreads ==
    \/ \E m \in ThreadManagers : BeginNewSession(m)
    \/ \E m \in ThreadManagers : BeginCloseSession(m)
    \/ \E m \in ThreadManagers : Quit(m)
    \/ \E m \in ThreadManagers : LoadCounter(m)
    \/ \E m \in ThreadManagers : StoreDecrement(m)
    \/ \E m \in ThreadManagers : StartSession(m)
    \/ \E m \in ThreadManagers : StoreIncrement(m)

SpecThreads == InitThreads /\ [][NextThreads]_vars

\* ------------------------------------------------- pair specification
\* Two managers alive at the same time and used one call after the other;
\* together they start one session fewer than there are ids.
InitPair ==
    /\ SESSION_COUNTER = 0
    /\ session_id = [m \in ThreadManagers |-> NoId]
    /\ run_mode = [m \in ThreadManagers |-> "interactive"]
    /\ ignore_status = [m \in ThreadManagers |-> TRUE]
    /\ mstate = [m \in ThreadManagers |-> "new"]
    /\ proc = [i \in Ids |-> "none"]
    /\ owner = [i \in Ids |-> "m1"]
    /\ last = NoCall
    /\ txt = NoTxt

NextPair ==
    \/ \E m \in ThreadManagers : Cardinality(Fresh) > 1 /\ Construct(m)
    \/ \E m \in ThreadManagers : CloseSession(m)
    \/ \E m \in ThreadManagers : Cardinality(Fresh) > 1 /\ NewSession(m)
    \/ \E m \in ThreadManagers : OpenSession(m)
    \/ \E m \in ThreadManagers : InnerCmd(m)

SpecPair == InitPair /\ [][NextPair]_vars

\* ------------------------------------------------------------- claims
\* The sessions started by manager m whose process is alive.
AliveOf(m) == {i \in Ids : proc[i] = "alive" /\ owner[i] = m}
\* The literal of the error marker occurs in the text: "L" directly before "E".
HasMarker(out) == \E i \in 1..(Len(out) - 1) : out[i] = "L" /\ out[i + 1] = "E"
IsCloseCall == last.op \in {"close_session", "new_session"}

\* C1: a construction that completes without raising leaves the manager with
\* exactly one open session, its id stored, and SESSION_COUNTER one above its
\* value before the construction.
C1_ConstructOpensOneSession ==
    (last.op = "construct" /\ last.raised = "none") =>
        /\ session_id[last.m] \in Ids
        /\ session_id[last.m] = last.started
        /\ AliveOf(last.m) = {session_id[last.m]}
        /\ SESSION_COUNTER = last.counter0 + 1
\* A manager constructed while an earlier manager's session is still counted.
C1_Witness ==
    /\ last.op = "construct" /\ last.raised = "none" /\ last.counter0 > 0
    /\ mstate[last.m] = "ready"

\* C2: at most one session started by a manager is alive at any time.
C2_AtMostOneOpenSession == \A m \in Managers : Cardinality(AliveOf(m)) <= 1

\* C3: two consecutive new_session() calls of a manager that held an open
\* session leave exactly one session open and SESSION_COUNTER as it was
\* before the first call.
C3_TwoNewSessionsKeepCount ==
    (last.op = "new_session" /\ last.again /\ last.raised = "none" /\ last.open00) =>
        /\ Cardinality(AliveOf(last.m)) = 1
        /\ SESSION_COUNTER = last.counter00

\* C4: a close_session() right after a close_session() that returned never
\* raises and changes neither SESSION_COUNTER nor the stored session_id.
C4_CloseSessionIdempotent ==
    (last.op = "close_session" /\ last.again) =>
        /\ last.raised = "none"
        /\ SESSION_COUNTER = last.counter0
        /\ session_id[last.m] = last.sid0

\* C5: when close_session() returns and the session it was called on has
\* terminated, SESSION_COUNTER is one less than before and the stored
\* session_id is cleared.
C5_TerminatedSessionIsCounted ==
    (/\ last.op = "close_session" /\ last.raised = "none"
     /\ last.sid0 # NoId /\ proc[last.sid0] = "dead") =>
        /\ SESSION_COUNTER = last.counter0 - 1
        /\ session_id[last.m] = NoId

\* C6 as claimed: no failure exception of the quit/close attempt leaves
\* close_session(), alone or inside new_session().
C6_CloseNeverRaises == IsCloseCall => last.closeRaised = "none"
\* C6 as amended: close_session() swallows LibguestfsCmdError only (no stored
\* id, a failed open, a failed remote quit helper or an error marker in its
\* output); an interactive quit that times out or reports a non-zero status
\* leaves close_session() and new_session() as the error it is.
C6_CloseSwallowsOnlyLibguestfsCmdError ==
    IsCloseCall =>
        /\ last.quit \in {"notsent", "returned", "LibguestfsCmdError",
                          "ShellProcessTerminatedError"} => last.closeRaised = "none"
        /\ last.quit \in {"ShellTimeoutError", "ShellCmdError"} =>
              (last.closeRaised = last.quit /\ last.raised = last.quit
               /\ last.mode = "interactive")
        /\ last.mode = "remote" => last.closeRaised = "none"
\* A new_session() whose interactive quit timed out.
C6_Witness ==
    /\ last.op = "new_session" /\ last.quit = "ShellTimeoutError"
    /\ last.raised = "ShellTimeoutError" /\ last.started = NoId

\* C7: a quit that ends with the process-terminated error makes
\* close_session() return normally, with no signal sent, SESSION_COUNTER
\* decremented by one and the stored session_id cleared.
C7_TerminatedQuitIsAClose ==
    (last.op = "close_session" /\ last.quit = "ShellProcessTerminatedError") =>
        /\ last.raised = "none"
        /\ last.signals = <<>>
        /\ SESSION_COUNTER = last.counter0 - 1
        /\ session_id[last.m] = NoId
C7_Witness ==
    /\ last.op = "close_session" /\ last.quit = "ShellProcessTerminatedError"
    /\ last.sid0 # NoId /\ last.counter0 > 1

\* C8: the status of an interactive send is 1 when a line of the output has
\* the error marker, 0 when none has, and the output is returned unchanged.
C8_StatusFromMarker ==
    txt.applied = "session" =>
        /\ txt.ret = txt.out
        /\ txt.status = IF HasMarker(txt.out) THEN 1 ELSE 0
\* The marker on the second line of the output.
C8_Witness ==
    /\ txt.applied = "session" /\ txt.status = 1
    /\ Len(txt.out) > 0 /\ txt.out[1] = "\n"

\* C9: with a non-zero status inner_cmd raises a command error exactly when
\* ignore_status is false, and with ignore_status true it returns a Command
\* Result carrying that status.
C9_InnerCmdStatusPolicy ==
    (last.op = "inner_cmd" /\ last.status # 0) =>
        /\ (last.raised = "CmdError") <=> ~last.ign
        /\ last.ign => (last.raised = "none" /\ last.result # NoResult
                        /\ last.result.exit_status = last.status)
        /\ ~last.ign => last.result = NoResult
C9_Witness ==
    /\ last.op = "inner_cmd" /\ last.status # 0 /\ ~last.ign
    /\ last.raised = "CmdError"

\* C10: a remote command whose output has the error marker ends as the same
\* output would on the interactive transport: a status-1 Command Result when
\* ignore_status is true, a raised command error when it is false.
C10_RemoteLikeInteractive ==
    (last.op = "inner_cmd" /\ last.mode = "remote" /\ HasMarker(last.out)) =>
        IF last.ign
        THEN last.raised = "none" /\ last.result.exit_status = 1
        ELSE last.raised \in {"CmdError", "LibguestfsCmdError"}

\* C11: the Command Result inner_cmd returns has as its command the text that
\* was passed, word for word, in interactive and in remote mode; in remote
\* mode the command line that was run is that text behind the
\* "guestfish --remote=<id>" prefix, and the prefix is not in the result.
C11_ResultNamesCommandVerbatim ==
    (last.op = "inner_cmd" /\ last.raised = "none") =>
        /\ last.result # NoResult
        /\ last.result.command = last.cmd
        /\ last.mode = "interactive" => last.line = last.cmd
        /\ last.mode = "remote" =>
              /\ last.line = Remote_command_line(last.sid0, last.cmd)
              /\ last.line # last.result.command
\* A remote inner command that returned a result.
C11_Witness ==
    /\ last.op = "inner_cmd" /\ last.raised = "none" /\ last.mode = "remote"
    /\ last.result.command = <<"ls">> /\ Len(last.line) = 3

\* C12: open_session() called while the stored id names a session whose
\* process no longer runs, in either run mode, clears the stored id and fails
\* with LibguestfsCmdError; it returns no handle for such a session.
C12_DeadSessionFailsOpen ==
    (last.op = "open_session" /\ last.sid0 # NoId /\ ~last.open0) =>
        /\ last.raised = "LibguestfsCmdError"
        /\ session_id[last.m] = NoId

\* C13: while a manager has no stored session id, inner_cmd fails with
\* LibguestfsCmdError, dispatches nothing and leaves SESSION_COUNTER and the
\* absent id as they are; only new_session() (alone or in the constructor)
\* stores an id again, and an inner_cmd right after a new_session() that
\* returned is dispatched to the session it started.
C13_NoIdNoDispatch ==
    /\ [](last.op = "inner_cmd" /\ last.sid0 = NoId =>
            /\ last.raised = "LibguestfsCmdError"
            /\ last.sentTo = NoId /\ last.line = <<>> /\ last.result = NoResult
            /\ SESSION_COUNTER = last.counter0
            /\ session_id[last.m] = NoId)
    /\ [][\A m \in Managers :
            (session_id[m] = NoId /\ session_id'[m] # NoId) =>
                (last'.op \in {"new_session", "construct"} /\ last'.m = m
                 /\ last'.started = session_id'[m])]_vars
    /\ [][(last.op = "new_session" /\ last.raised = "none" /\ last'.op = "inner_cmd") =>
            (last'.sentTo = last.started /\ last'.sentTo # NoId)]_vars
\* An inner_cmd without a stored id while an earlier session is still counted.
C13_Witness ==
    /\ last.op = "inner_cmd" /\ last.sid0 = NoId /\ last.raised = "LibguestfsCmdError"
    /\ last.counter0 > 0 /\ mstate[last.m] = "ready"

\* C14: no session started by a manager is still running after that manager
\* object is gone: it was closed by close_session() or new_session(), or at
\* the latest when the manager was dropped.
C14_NoSessionOutlivesManager ==
    \A i \in Ids : owner[i] = "gone" => proc[i] # "alive"

\* C15: with managers used one after the other, every call of a manager
\* leaves SESSION_COUNTER at the number of open sessions: one more for a
\* session it started, one less for a session its close_session() found or
\* left ended, in both run modes and on every error path.
C15_CounterCountsOpenSessions ==
    LET created == IF last.started # NoId THEN 1 ELSE 0
        closed == IF IsCloseCall /\ last.sid0 # NoId /\ proc[last.sid0] # "alive"
                  THEN 1 ELSE 0 IN
    last.op \in {"construct", "new_session", "close_session", "open_session", "inner_cmd"} =>
        SESSION_COUNTER = last.counter0 + created - closed

\* C16 as claimed: between the new_session() that recorded the session id and
\* the next close_session() or new_session(), no inner_cmd, however it ends,
\* and no open_session() that returns changes the stored id, and every
\* command is dispatched to the session of that id.
C16_SessionIdStable ==
    (/\ last.sid0 # NoId /\ last.recorded
     /\ last.op = "inner_cmd" \/ (last.op = "open_session" /\ last.raised = "none")) =>
        /\ session_id[last.m] = last.sid0
        /\ last.sentTo # NoId => last.sentTo = last.sid0
\* C16 as amended: a command is only ever dispatched to the session of the
\* stored id, and inner_cmd and open_session() leave the stored id as it is
\* whenever a handle was obtained (the command returning, reporting status 1,
\* timing out or raising); the one exception is an interactive open of a
\* session whose process has ended that raises ShellStatusError: it clears
\* the id, nothing is dispatched and the call fails with LibguestfsCmdError.
C16_SessionIdStableWhileOpenSucceeds ==
    (last.sid0 # NoId /\ last.op \in {"inner_cmd", "open_session"}) =>
        /\ last.sentTo \in {NoId, last.sid0}
        /\ (last.op = "inner_cmd" /\ last.mode = "remote") =>
               last.line = Remote_command_line(last.sid0, last.cmd)
        /\ IF session_id[last.m] = last.sid0
           THEN last.op = "inner_cmd" => last.sentTo = last.sid0
           ELSE /\ session_id[last.m] = NoId
                /\ last.raised = "LibguestfsCmdError" /\ last.sentTo = NoId
                /\ last.mode = "interactive" /\ ~last.open0
\* An inner_cmd that timed out on the second session of a manager.
C16_Witness ==
    /\ last.op = "inner_cmd" /\ last.raised = "ShellTimeoutError"
    /\ last.sid0 > 1 /\ session_id[last.m] = last.sid0 /\ last.sentTo = last.sid0
    /\ last.recorded

\* C17: an inner_cmd whose prompt does not come back in time fails with the
\* timeout error, which is neither the process-terminated error nor a command
\* error, and nothing is killed: the session's process still runs and the
\* stored session id and SESSION_COUNTER are as before the call.
C17_TimeoutLeavesSessionOpen ==
    (last.op = "inner_cmd" /\ last.answer = "timeout") =>
        /\ last.raised = "ShellTimeoutError"
        /\ last.raised \notin {"ShellProcessTerminatedError", "CmdError",
                               "LibguestfsCmdError", "ShellCmdError"}
        /\ last.result = NoResult
        /\ last.sentTo = last.sid0 /\ proc[last.sid0] = "alive"
        /\ session_id[last.m] = last.sid0
        /\ SESSION_COUNTER = last.counter0
\* A timeout with ignore_status switched off and two sessions counted.
C17_Witness ==
    /\ last.op = "inner_cmd" /\ last.answer = "timeout" /\ ~last.ign
    /\ last.counter0 > 1 /\ proc[last.sid0] = "alive"

\* C18 as claimed: an inner_cmd on a session whose process was killed raises
\* the process-terminated error.
C18_DeadProcessRaisesTerminated ==
    (last.op = "inner_cmd" /\ last.sid0 # NoId /\ ~last.open0) =>
        last.raised = "ShellProcessTerminatedError"
\* C18 as amended: an inner_cmd on a session whose process was killed never
\* returns a result and never raises the timeout error; on an interactive
\* handle it raises the process-terminated error, while in remote mode, and
\* when the interactive open itself fails, it raises LibguestfsCmdError.
C18_DeadProcessNeverAnswers ==
    (last.op = "inner_cmd" /\ last.sid0 # NoId /\ ~last.open0) =>
        /\ last.result = NoResult
        /\ last.raised \in {"ShellProcessTerminatedError", "LibguestfsCmdError"}
        /\ (last.raised = "ShellProcessTerminatedError") <=>
               (last.mode = "interactive" /\ last.sentTo = last.sid0)
        /\ last.mode = "remote" => last.sentTo = last.sid0
\* The process-terminated error for a command sent to a dead interactive session.
C18_Witness ==
    /\ last.op = "inner_cmd" /\ last.sid0 # NoId /\ ~last.open0
    /\ last.raised = "ShellProcessTerminatedError" /\ last.answer = "terminated"
    /\ last.recorded

\* C19: an interactive construction completes without raising only if the
\* "is-config" probe was sent to the session the construction opened and came
\* back with status 0; a probe with a non-zero status makes the construction
\* raise although ignore_status is true; a remote construction sends no probe.
C19_ConstructionProbe ==
    last.op = "construct" =>
        /\ (last.mode = "interactive" /\ last.raised = "none") =>
               /\ last.cmd = <<"is-config">> /\ last.answer = "prompt"
               /\ last.started # NoId /\ last.sentTo = last.started
               /\ last.status = 0 /\ ~HasMarker(last.out)
        /\ (last.cmd = <<"is-config">> /\ last.status # 0) =>
               /\ last.raised = "ShellStatusError" /\ last.ign
               /\ mstate[last.m] = "failed"
        /\ last.mode = "remote" =>
               /\ last.cmd = <<>> /\ last.sentTo = NoId /\ last.answer = "none"
\* A probe that found the error marker in the output of "is-config".
C19_Witness ==
    /\ last.op = "construct" /\ last.cmd = <<"is-config">> /\ last.status # 0
    /\ last.raised = "ShellStatusError" /\ SESSION_COUNTER = last.counter0 + 1

\* C20: lgf_cmd_check with a name outside the supported tools raises
\* LibguestfsCmdError before the tool is looked up; with a supported name it
\* never raises and returns the tool's path, or None when it is not installed.
C20_ToolCheck ==
    txt.applied = "lgf_cmd_check" =>
        IF txt.cmd \notin libguestfs_cmds
        THEN txt.raised = "LibguestfsCmdError" /\ ~txt.looked /\ txt.ret = None
        ELSE /\ txt.raised = "none" /\ txt.looked
             /\ txt.ret = IF txt.installed THEN find_command(txt.cmd) ELSE None
             /\ txt.ret = None <=> ~txt.installed
\* An unsupported name on a host that has no such tool.
C20_Witness ==
    /\ txt.applied = "lgf_cmd_check" /\ txt.cmd = "virt-v2v" /\ ~txt.installed
    /\ txt.raised = "LibguestfsCmdError"

\* C21: with two managers on two threads, once every new_session() and
\* close_session() call has completed, SESSION_COUNTER is its initial value
\* (0) plus the sessions created minus the sessions closed.
C21_NoLostUpdate ==
    (\A m \in ThreadManagers : txt.pc[m] = "idle") =>
        SESSION_COUNTER = txt.created - txt.closed

\* C22: lgf_command raises LibguestfsCmdError exactly when the external
\* command ends with a non-zero exit status or at the timeout and
\* ignore_status is false; with ignore_status true it returns a Command
\* Result carrying the exit status, whatever it is.
C22_LgfCommandStatusPolicy ==
    txt.applied = "lgf_command" =>
        LET failed == txt.end.exit_status # 0 \/ txt.end.interrupted IN
        /\ txt.raised \in {"none", "LibguestfsCmdError"}
        /\ (txt.raised = "LibguestfsCmdError") <=> (failed /\ ~txt.ign)
        /\ txt.raised = "none" =>
               /\ txt.result.exit_status = txt.end.exit_status
               /\ txt.result.command = <<txt.cmd>>
        /\ txt.ign => txt.raised = "none"
\* A command that failed with ignore_status switched off.
C22_Witness ==
    /\ txt.applied = "lgf_command" /\ ~txt.ign /\ txt.end.exit_status = 2
    /\ txt.raised = "LibguestfsCmdError"

\* C23: closing an interactive session sends quit first; a signal is sent
\* only if the process is still alive after quit; the polite signal
\* (SIGTERM) comes before the forceful one (SIGKILL), which is sent only if
\* the process is still alive after the polite one; a process that is
\* already dead gets no signal and the close is not an error.
C23_PoliteBeforeForceful ==
    (IsCloseCall /\ last.mode = "interactive" /\ last.sid0 # NoId) =>
        /\ last.signals # <<>> => (last.quit = "returned" /\ last.sentTo = last.sid0)
        /\ last.signals \in {<<>>, <<"SIGTERM">>, <<"SIGTERM", "SIGKILL">>}
        /\ ~last.open0 => (last.signals = <<>> /\ last.closeRaised = "none")

\* C24: new_session() starts the fresh session only after the close attempt
\* has finished, and counts and records it only after it started: when the
\* close attempt or the start raises, new_session() raises that error, no
\* session id is recorded and SESSION_COUNTER is not incremented; when it
\* returns, the id of the session it started is stored and SESSION_COUNTER is
\* one above its value after the close.
C24_NewSessionOrder ==
    last.op = "new_session" =>
        LET closeCounted == IF last.quit = "ShellProcessTerminatedError"
                               \/ last.signals # <<>>
                            THEN 1 ELSE 0 IN
        /\ last.closeRaised # "none" =>
               (last.raised = last.closeRaised /\ last.started = NoId)
        /\ last.raised # "none" =>
               /\ last.started = NoId
               /\ session_id[last.m] \in {NoId, last.sid0}
               /\ SESSION_COUNTER = last.counter0 - closeCounted
        /\ last.raised = "none" =>
               /\ last.started # NoId /\ last.started # last.sid0
               /\ session_id[last.m] = last.started
               /\ proc[last.started] = "alive"
               /\ SESSION_COUNTER = last.counter0 - closeCounted + 1
\* The start of the fresh session failed after the old one was closed and
\* counted.
C24_Witness ==
    /\ last.op = "new_session" /\ last.closeRaised = "none" /\ last.raised # "none"
    /\ last.sid0 # NoId /\ session_id[last.m] = NoId
    /\ SESSION_COUNTER = last.counter0 - 1

\* C25: for a manager whose ignore_status was never set by the caller, an
\* inner_cmd whose output has the error marker raises a command error and
\* returns no status-1 result.
C25_DefaultRaisesOnMarker ==
    (last.op = "inner_cmd" /\ HasMarker(last.out)) =>
        /\ last.raised \in {"CmdError", "LibguestfsCmdError"}
        /\ last.result = NoResult

\* C26: close_session() decrements SESSION_COUNTER and clears the stored id
\* only when the session's process has terminated: after a close_session()
\* on a session whose process is still alive, also after the second signal,
\* the counter and the id are as before.
C26_CountedDownOnlyWhenTerminated ==
    (last.op = "close_session" /\ last.sid0 # NoId /\ proc[last.sid0] = "alive") =>
        /\ SESSION_COUNTER = last.counter0
        /\ session_id[last.m] = last.sid0

\* C27: when the construction of an interactive manager fails at the
\* "is-config" probe (non-zero status, timeout or process termination),
\* nothing is rolled back: no quit and no signal is sent, the id of the
\* session the constructor started stays stored, SESSION_COUNTER stays one
\* above its value before, and unless the process itself terminated during
\* the probe it keeps running.
C27_FailedProbeLeavesSession ==
    (last.op = "construct" /\ last.cmd = <<"is-config">> /\ last.raised # "none") =>
        /\ last.mode = "interactive" /\ mstate[last.m] = "failed"
        /\ last.raised \in {"ShellStatusError", "ShellTimeoutError",
                            "ShellProcessTerminatedError"}
        /\ last.started # NoId /\ session_id[last.m] = last.started
        /\ SESSION_COUNTER = last.counter0 + 1
        /\ last.quit = "notsent" /\ last.signals = <<>>
        /\ proc[last.started] = IF last.answer = "terminated" THEN "dead" ELSE "alive"
\* The probe timed out with an earlier manager's session still counted.
C27_Witness ==
    /\ last.op = "construct" /\ last.raised = "ShellTimeoutError"
    /\ last.counter0 > 0 /\ proc[last.started] = "alive"
    /\ session_id[last.m] = last.started

\* C28: with managers used one call after the other, SESSION_COUNTER is never
\* negative and never smaller than the number of managers that have a
\* session id stored.
C28_CounterCoversStoredIds ==
    /\ SESSION_COUNTER >= 0
    /\ SESSION_COUNTER >= Cardinality({m \in DOMAIN session_id : session_id[m] # NoId})

\* A close_session() that counted a session down while the other manager
\* still has its session stored.
C28_Witness ==
    /\ last.op = "close_session" /\ SESSION_COUNTER = last.counter0 - 1
    /\ session_id[last.m] = NoId
    /\ SESSION_COUNTER = Cardinality({m \in DOMAIN session_id : session_id[m] # NoId})
    /\ SESSION_COUNTER = 1

\* C29: one close_session() call takes at most 1 off SESSION_COUNTER, takes it
\* off exactly when the same call clears the stored session id, and changes
\* neither when it finds no id stored.
C29_DecrementIffIdCleared ==
    last.op = "close_session" =>
        /\ SESSION_COUNTER \in {last.counter0, last.counter0 - 1}
        /\ (SESSION_COUNTER = last.counter0 - 1)
               <=> (last.sid0 # NoId /\ session_id[last.m] = NoId)
        /\ last.sid0 = NoId =>
               (SESSION_COUNTER = last.counter0 /\ session_id[last.m] = NoId)

\* C30: in remote run mode close_session() leaves SESSION_COUNTER and the
\* stored session id as they were, whether the remote quit succeeded or
\* failed, and new_session() adds 1 for the session it starts with nothing
\* taken off for the one it replaces.
C30_RemoteCloseKeepsCount ==
    /\ (last.op = "close_session" /\ last.mode = "remote") =>
           /\ SESSION_COUNTER = last.counter0
           /\ session_id[last.m] = last.sid0
    /\ (last.op = "new_session" /\ last.mode = "remote") =>
           /\ last.started # NoId =>
                  (SESSION_COUNTER = last.counter0 + 1
                       /\ session_id[last.m] = last.started)
           /\ last.started = NoId =>
                  (SESSION_COUNTER = last.counter0
                       /\ session_id[last.m] = last.sid0)

\* A remote close_session() whose quit was accepted: the listener is gone,
\* the id is still stored and the session still counted.
C30_Witness ==
    /\ last.op = "close_session" /\ last.mode = "remote"
    /\ last.quit = "returned" /\ last.sid0 # NoId
    /\ proc[last.sid0] = "dead"
    /\ session_id[last.m] = last.sid0
    /\ SESSION_COUNTER = last.counter0 /\ SESSION_COUNTER > 0

====
